---- MODULE Spec2Model ----
(***************************************************************************)
(* Model of comfyui_batch_generator.py: the workflow-graph functions       *)
(* (validate_workflow, update_workflow_prompt, convert_ui_to_api_format)   *)
(* and the control loop of ComfyUIBatchGenerator.generate_batch together   *)
(* with ComfyUIClient.get_images.                                          *)
(*                                                                         *)
(* Two specifications share the variables:                                 *)
(*   Spec    one run of generate_batch against a nondeterministic service, *)
(*           file system and event stream;                                 *)
(*   SpecFn  the graph functions applied, item after item, to every graph  *)
(*           of a bounded family of link-form graphs.                      *)
(***************************************************************************)
EXTENDS Integers, Sequences, FiniteSets, TLC

VARIABLES
    pc,               \* position in generate_batch (or in the SpecFn driver)
    workflow_file,    \* content of the template file (what json.load returns)
    prompts_file,     \* content of the prompt-list file
    debug,            \* self.debug
    workflow,         \* the object bound to `workflow` in generate_batch
    ws,               \* the local `ws`: "unbound", "created", "open"
    i,                \* 1-based index of the current item (enumerate(..., 1))
    updated_workflow, \* result of update_workflow_prompt for the current item
    api_workflow,     \* result of convert_ui_to_api_format for the current item
    inj,              \* outcome of the last update_workflow_prompt call
    prompt_id,        \* get_images' local prompt_id (0: none)
    out,              \* the last frame returned by ws.recv()
    recvs,            \* frames discarded so far in the current wait
    inflight,         \* service side: submissions accepted whose completion
                      \* event the client has not yet received
    abandoned,        \* items whose processing ended in a caught exception
                      \* after the service had accepted their submission
    submitted,        \* item indices in the order queue_prompt was called
    images,           \* get_images' result, flattened in iteration order
    img_idx,          \* number of images of `images` already handled
    saved,            \* files written under output_dir
    log,              \* messages printed so far
    attempted,        \* items whose loop body was entered
    exit_status,      \* -1 while running, 0 normal return, 1 sys.exit(1)
    close_attempts,   \* times the finally block ran ws.close()
    fatal_cause       \* what raised into the outer except ("none" if nothing)

vars == <<pc, workflow_file, prompts_file, debug, workflow, ws, i,
          updated_workflow, api_workflow, inj, prompt_id, out, recvs,
          inflight, abandoned, submitted, images, img_idx, saved, log,
          attempted, exit_status, close_attempts, fatal_cause>>

(***************************************************************************)
(* Bounds of the model.                                                    *)
(***************************************************************************)
MaxItems == 2      \* longest prompt list
MaxRecv == 2       \* frames the wait loop may discard for one item
MaxImages == 2     \* images one output node may report
MaxNodes == 2      \* longest node array of a SpecFn graph

(***************************************************************************)
(* Program constants.                                                      *)
(***************************************************************************)
DefaultPositiveNodeId == 6
DefaultNegativeNodeId == 7
MinLinkLen == 6

(***************************************************************************)
(* JSON values.  A node id is an integer or a numeric string; str() maps   *)
(* both to the same decimal text, while == keeps them apart.               *)
(***************************************************************************)
Digit == <<"0", "1", "2", "3", "4", "5", "6", "7", "8", "9">>

RECURSIVE DecStr(_)
DecStr(n) ==
    IF n < 10 THEN Digit[n + 1]
    ELSE DecStr(n \div 10) \o Digit[(n % 10) + 1]

IntId(n) == [k |-> "int", v |-> n]
StrId(n) == [k |-> "str", v |-> n]

\* str(node['id']), str(link_info['source_node'])
str(id) == DecStr(id.v)

EmptyDict == [x \in {} |-> 0]

\* d[k] = v on a Python dict
DictSet(d, k, v) == (k :> v) @@ d

NoLink == -1     \* an input's "link": null

Input(name, link) == [name |-> name, link |-> link]

\* A node object of the "nodes" array.  isDict FALSE is a JSON value that is
\* not an object; hasX FALSE is an absent key.
Node(id, type, widgets, inputs) ==
    [isDict |-> TRUE, hasId |-> TRUE, id |-> id, hasType |-> TRUE,
     type |-> type, hasWidgets |-> TRUE, widgets |-> widgets,
     hasInputs |-> TRUE, inputs |-> inputs]

\* A link array [link_id, source_node, source_output, target_node,
\* target_input, type, ...] of `len` elements.
Link(len, id, src, srcOut, tgt, tgtIn) ==
    [len |-> len, link_id |-> id, source_node |-> src,
     source_output |-> srcOut, target_node |-> tgt, target_input |-> tgtIn]

\* The template JSON value.
Graph(nodes, links) ==
    [isDict |-> TRUE, hasNodes |-> TRUE, nodesIsList |-> TRUE,
     nodes |-> nodes, links |-> links]

(***************************************************************************)
(* validate_workflow                                                       *)
(***************************************************************************)
NodeProblem(node) ==
    IF ~node.isDict THEN "node_not_dict"
    ELSE IF ~node.hasId THEN "node_no_id"
    ELSE IF ~node.hasType THEN "node_no_type"
    ELSE "ok"

validate_workflow(wf) ==
    IF ~wf.isDict THEN [ok |-> FALSE, message |-> "not_dict"]
    ELSE IF ~wf.hasNodes THEN [ok |-> FALSE, message |-> "no_nodes"]
    ELSE IF ~wf.nodesIsList THEN [ok |-> FALSE, message |-> "nodes_not_list"]
    ELSE LET bad == {n \in 1..Len(wf.nodes) : NodeProblem(wf.nodes[n]) # "ok"}
         IN IF bad = {} THEN [ok |-> TRUE, message |-> "ok"]
            ELSE LET first == CHOOSE n \in bad : \A m \in bad : n <= m
                 IN [ok |-> FALSE, message |-> NodeProblem(wf.nodes[first])]

(***************************************************************************)
(* update_workflow_prompt                                                  *)
(***************************************************************************)
\* node.get('type') == 'CLIPTextEncode' and 'widgets_values' in node and
\* len(node['widgets_values']) > 0
IsTextNode(node) ==
    /\ node.hasType /\ node.type = "CLIPTextEncode"
    /\ node.hasWidgets /\ Len(node.widgets) > 0

SetFirstWidget(node, text) ==
    [node EXCEPT !.widgets = [node.widgets EXCEPT ![1] = text]]

\* One iteration of the loop over the copy's nodes: the node after it and
\* whether updated_count was incremented.
UpdateNode(node, positive_prompt, negative_prompt, positive_node_id, negative_node_id) ==
    IF ~node.isDict \/ ~node.hasId THEN [node |-> node, hit |-> 0]
    ELSE IF ~IsTextNode(node) THEN [node |-> node, hit |-> 0]
    ELSE IF node.id = positive_node_id
         THEN [node |-> SetFirstWidget(node, positive_prompt), hit |-> 1]
    ELSE IF node.id = negative_node_id
         THEN [node |-> SetFirstWidget(node, negative_prompt), hit |-> 1]
    ELSE [node |-> node, hit |-> 0]

RECURSIVE SumHits(_, _)
SumHits(rs, n) == IF n = 0 THEN 0 ELSE rs[n].hit + SumHits(rs, n - 1)

\* copy.copy in place of copy.deepcopy: the copy shares the node objects.
shallow_copy(obj) == [obj |-> obj, shared |-> TRUE]

\* copy.deepcopy(workflow): an equal value none of whose parts is shared
\* with the argument, so that writes through it do not reach the argument.
deepcopy(obj) == [obj |-> obj, shared |-> FALSE]

\* The call's outcome: raised/error, the caller's object after the call
\* (orig), the returned graph (copy), updated_count, and whether the
\* "no node found" warning was printed.
update_workflow_prompt(wf, positive_prompt, negative_prompt, positive_node_id, negative_node_id) ==
    LET v1 == validate_workflow(wf) IN
    IF ~v1.ok
    THEN [raised |-> TRUE, error |-> v1.message, orig |-> wf, copy |-> wf,
          updated_count |-> 0, warned |-> FALSE]
    ELSE
    LET c == deepcopy(wf)
        v2 == validate_workflow(c.obj)
    IN
    IF ~v2.ok
    THEN [raised |-> TRUE, error |-> v2.message, orig |-> wf, copy |-> c.obj,
          updated_count |-> 0, warned |-> FALSE]
    ELSE
    LET rs == [n \in 1..Len(c.obj.nodes) |->
                 UpdateNode(c.obj.nodes[n], positive_prompt, negative_prompt,
                            positive_node_id, negative_node_id)]
        new == [c.obj EXCEPT !.nodes = [n \in 1..Len(c.obj.nodes) |-> rs[n].node]]
        cnt == SumHits(rs, Len(c.obj.nodes))
        v3 == validate_workflow(new)
    IN [raised |-> ~v3.ok, error |-> v3.message,
        orig |-> IF c.shared THEN new ELSE wf,
        copy |-> new, updated_count |-> cnt, warned |-> (cnt = 0)]

(***************************************************************************)
(* convert_ui_to_api_format and _map_widgets_to_inputs                     *)
(***************************************************************************)
\* An input value of the execution form: a reference pair
\* [source_node_id, output_index] or a literal.
Ref(node, idx) == [ref |-> TRUE, node |-> node, idx |-> idx, lit |-> ""]
Lit(v) == [ref |-> FALSE, node |-> "", idx |-> 0, lit |-> v]

\* link_map after the loop over the first n links.
RECURSIVE BuildLinkMap(_, _)
BuildLinkMap(links, n) ==
    IF n = 0 THEN EmptyDict
    ELSE LET m == BuildLinkMap(links, n - 1)
             l == links[n]
         IN IF l.len >= MinLinkLen
            THEN DictSet(m, l.link_id,
                         [source_node |-> l.source_node,
                          source_output |-> l.source_output,
                          target_node |-> l.target_node,
                          target_input |-> l.target_input])
            ELSE m

\* api_node['inputs'] after the loop over the first n declared inputs.
RECURSIVE LinkInputs(_, _, _)
LinkInputs(inputs, n, link_map) ==
    IF n = 0 THEN EmptyDict
    ELSE LET d == LinkInputs(inputs, n - 1, link_map)
             it == inputs[n]
         IN IF it.link # NoLink /\ it.link \in DOMAIN link_map
            THEN DictSet(d, it.name,
                         Ref(str(link_map[it.link].source_node),
                             link_map[it.link].source_output))
            ELSE d

RECURSIVE UpdateNamed(_, _, _, _)
UpdateNamed(d, names, widgets, n) ==
    IF n = 0 THEN d
    ELSE DictSet(UpdateNamed(d, names, widgets, n - 1), names[n], Lit(widgets[n]))

KSamplerNames ==
    <<"seed", "control_after_generate", "steps", "cfg", "sampler_name",
      "scheduler", "denoise">>
EmptyLatentNames == <<"width", "height", "batch_size">>
CheckpointNames == <<"ckpt_name">>
LoraNames == <<"lora_name", "strength_model", "strength_clip">>

map_widgets_to_inputs(ui_node, inputs) ==
    LET node_type == IF ui_node.hasType THEN ui_node.type ELSE ""
        widgets == ui_node.widgets
        put(names) == UpdateNamed(inputs, names, widgets, Len(names))
    IN IF node_type = "KSampler" /\ Len(widgets) >= Len(KSamplerNames)
       THEN put(KSamplerNames)
       ELSE IF node_type = "EmptyLatentImage" /\ Len(widgets) >= Len(EmptyLatentNames)
       THEN put(EmptyLatentNames)
       ELSE IF node_type = "CheckpointLoaderSimple" /\ Len(widgets) >= Len(CheckpointNames)
       THEN put(CheckpointNames)
       ELSE IF node_type = "LoraLoader" /\ Len(widgets) >= Len(LoraNames)
       THEN put(LoraNames)
       ELSE inputs

\* The api_node built for one node of the array.
ApiNode(node, link_map) ==
    LET in1 == IF node.hasInputs
               THEN LinkInputs(node.inputs, Len(node.inputs), link_map)
               ELSE EmptyDict
        in2 == IF node.hasWidgets /\ Len(node.widgets) > 0
               THEN map_widgets_to_inputs(node, in1)
               ELSE in1
        in3 == IF IsTextNode(node)
               THEN DictSet(in2, "text", Lit(node.widgets[1]))
               ELSE in2
    IN [class_type |-> IF node.hasType THEN node.type ELSE "", inputs |-> in3]

\* The entry is stored only when the node declares inputs.
StoreNode_inside_inputs_branch(api, node, link_map) ==
    IF ~node.isDict \/ ~node.hasId THEN api
    ELSE IF node.hasInputs /\ Len(node.inputs) > 0
         THEN DictSet(api, str(node.id), ApiNode(node, link_map))
         ELSE api

\* One iteration of the loop over nodes: api_workflow after it.
StoreNode(api, node, link_map) ==
    IF ~node.isDict \/ ~node.hasId THEN api
    ELSE DictSet(api, str(node.id), ApiNode(node, link_map))

RECURSIVE ConvertNodes(_, _, _)
ConvertNodes(nodes, n, link_map) ==
    IF n = 0 THEN EmptyDict
    ELSE StoreNode(ConvertNodes(nodes, n - 1, link_map), nodes[n], link_map)

convert_ui_to_api_format(ui_workflow) ==
    LET links == ui_workflow.links
        link_map == BuildLinkMap(links, Len(links))
        nodes == IF ui_workflow.hasNodes THEN ui_workflow.nodes ELSE <<>>
    IN ConvertNodes(nodes, Len(nodes), link_map)

(***************************************************************************)
(* Prompt items.  A PromptItem is a JSON object; hasX FALSE is an absent   *)
(* key.  Item k of a list carries id k and texts of its own.               *)
(***************************************************************************)
Item(k, hasId, hasPositive, hasNegative) ==
    [id |-> k, hasId |-> hasId,
     hasPositive |-> hasPositive, positive |-> "pos" \o DecStr(k),
     hasNegative |-> hasNegative, negative |-> "neg" \o DecStr(k)]

GoodItem(k) == Item(k, TRUE, TRUE, TRUE)

NoGraph == Graph(<<>>, <<>>)
NoInj == [raised |-> FALSE, error |-> "ok", updated_count |-> 0, warned |-> FALSE]
NoFrame == [kind |-> "none", type |-> "", node |-> "", pid |-> 0]

(***************************************************************************)
(* The graphs of SpecFn: every node array of at most MaxNodes nodes drawn  *)
(* from NodePool, with each link array of LinkLists, and the templates     *)
(* that are no link-form graph at all.                                     *)
(***************************************************************************)
N6 == Node(IntId(6), "CLIPTextEncode", <<"a photo">>, <<Input("clip", 1)>>)
N7 == Node(IntId(7), "CLIPTextEncode", <<"bad, ugly">>, <<Input("clip", NoLink)>>)
N6empty == Node(IntId(6), "CLIPTextEncode", <<>>, <<>>)
N6str == Node(StrId(6), "CLIPTextEncode", <<"a drawing">>, <<>>)
N7latent == Node(IntId(7), "EmptyLatentImage", <<"512", "768", "1">>, <<>>)
N3 ==
    Node(IntId(3), "KSampler",
         <<"42", "randomize", "20", "8", "euler", "normal", "1">>,
         <<Input("positive", 2), Input("negative", 3), Input("model", NoLink)>>)
N4 == Node(IntId(4), "CheckpointLoaderSimple", <<"model.safetensors">>, <<>>)
N9 ==
    [Node(IntId(9), "SaveImage", <<>>, <<>>)
        EXCEPT !.hasWidgets = FALSE, !.hasInputs = FALSE]
NnoId == [N4 EXCEPT !.hasId = FALSE]
NnoType == [N6 EXCEPT !.hasType = FALSE]
NnotDict == [N4 EXCEPT !.isDict = FALSE]

NodePool == {N6, N7, N6empty, N6str, N7latent, N3, N4, N9, NnoId, NnoType, NnotDict}

L1 == Link(6, 1, IntId(4), 0, IntId(6), 0)
L2 == Link(6, 2, IntId(6), 0, IntId(3), 1)
L3 == Link(6, 3, IntId(7), 0, IntId(3), 2)
L3short == Link(5, 3, IntId(7), 0, IntId(3), 2)

LinkLists == {<<>>, <<L2>>, <<L1, L2, L3>>, <<L1, L2, L3short>>}

NodeArrays == UNION {[1..n -> NodePool] : n \in 0..MaxNodes}

NotADict == [NoGraph EXCEPT !.isDict = FALSE]
NoNodesKey == [NoGraph EXCEPT !.hasNodes = FALSE]
NodesNotAList == [NoGraph EXCEPT !.nodesIsList = FALSE]

FnGraphs ==
    {Graph(ns, ls) : ns \in NodeArrays, ls \in LinkLists}
        \cup {NotADict, NoNodesKey, NodesNotAList}

FnPrompts == [hasPrompts |-> TRUE, prompts |-> [k \in 1..MaxItems |-> GoodItem(k)]]

(***************************************************************************)
(* SpecFn: update_workflow_prompt and convert_ui_to_api_format applied to  *)
(* the template for one item after the other, as lines 346-357 do.         *)
(***************************************************************************)
BatchIdle ==
    /\ debug = FALSE /\ ws = "unbound" /\ prompt_id = 0 /\ out = NoFrame
    /\ recvs = 0 /\ inflight = {} /\ abandoned = {} /\ submitted = <<>>
    /\ images = <<>> /\ img_idx = 0 /\ saved = {} /\ log = {}
    /\ attempted = {} /\ exit_status = -1 /\ close_attempts = 0
    /\ fatal_cause = "none"

BatchUnchanged ==
    UNCHANGED <<debug, ws, prompt_id, out, recvs, inflight, abandoned,
                submitted, images, img_idx, saved, log, attempted,
                exit_status, close_attempts, fatal_cause>>

InitFn ==
    /\ pc = "fn_inject"
    /\ workflow_file \in FnGraphs
    /\ workflow = workflow_file
    /\ prompts_file = FnPrompts
    /\ i = 1
    /\ updated_workflow = NoGraph
    /\ api_workflow = EmptyDict
    /\ inj = NoInj
    /\ BatchIdle

\* lines 346-350
FnInject ==
    /\ pc = "fn_inject"
    /\ LET item == prompts_file.prompts[i]
           r == update_workflow_prompt(workflow, item.positive, item.negative,
                                       IntId(DefaultPositiveNodeId),
                                       IntId(DefaultNegativeNodeId))
       IN /\ workflow' = r.orig
          /\ updated_workflow' = r.copy
          /\ inj' = [raised |-> r.raised, error |-> r.error,
                     updated_count |-> r.updated_count, warned |-> r.warned]
          /\ pc' = IF r.raised THEN "fn_next" ELSE "fn_convert"
    /\ UNCHANGED <<workflow_file, prompts_file, i, api_workflow>>
    /\ BatchUnchanged

\* line 357
FnConvert ==
    /\ pc = "fn_convert"
    /\ api_workflow' = convert_ui_to_api_format(updated_workflow)
    /\ pc' = "fn_next"
    /\ UNCHANGED <<workflow_file, prompts_file, i, workflow, updated_workflow, inj>>
    /\ BatchUnchanged

\* the next iteration of the loop of line 334
FnNextItem ==
    /\ pc = "fn_next"
    /\ i < Len(prompts_file.prompts)
    /\ i' = i + 1
    /\ pc' = "fn_inject"
    /\ UNCHANGED <<workflow_file, prompts_file, workflow, updated_workflow,
                   api_workflow, inj>>
    /\ BatchUnchanged

NextFn == FnInject \/ FnConvert \/ FnNextItem

SpecFn == InitFn /\ [][NextFn]_vars

(***************************************************************************)
(* Spec: one run of generate_batch.                                        *)
(*                                                                         *)
(* The inputs: the template file, the prompt-list file and the debug flag. *)
(* The environment (file system, HTTP service, event stream) chooses the   *)
(* outcome of every call made to it.                                       *)
(***************************************************************************)
FullGraph == Graph(<<N4, N6, N7, N3>>, <<L1, L2, L3>>)

BatchTemplates == {FullGraph, NoNodesKey, Graph(<<N6, NnoType>>, <<>>)}

ItemShapes ==
    {<<TRUE, TRUE, TRUE>>, <<FALSE, TRUE, TRUE>>,
     <<TRUE, FALSE, TRUE>>, <<TRUE, TRUE, FALSE>>}

ItemLists ==
    UNION {{[k \in 1..n |-> Item(k, sh[k][1], sh[k][2], sh[k][3])] :
               sh \in [1..n -> ItemShapes]} : n \in 0..MaxItems}

PromptFiles ==
    {[hasPrompts |-> TRUE, prompts |-> l] : l \in ItemLists}
        \cup {[hasPrompts |-> FALSE, prompts |-> <<>>]}

\* history['outputs'] flattened in iteration order: a images of node "9",
\* then b images of node "10"
ImageList(a, b) ==
    [n \in 1..(a + b) |->
        IF n <= a THEN [node |-> "9", j |-> n - 1]
        ELSE [node |-> "10", j |-> n - a - 1]]

ImageLists == {ImageList(a, b) : a \in 0..MaxImages, b \in 0..1}

Init ==
    /\ pc = "load_workflow"
    /\ workflow_file \in BatchTemplates
    /\ prompts_file \in PromptFiles
    /\ debug \in BOOLEAN
    /\ workflow = NoGraph
    /\ i = 0
    /\ updated_workflow = NoGraph
    /\ api_workflow = EmptyDict
    /\ inj = NoInj
    /\ ws = "unbound" /\ prompt_id = 0 /\ out = NoFrame
    /\ recvs = 0 /\ inflight = {} /\ abandoned = {} /\ submitted = <<>>
    /\ images = <<>> /\ img_idx = 0 /\ saved = {} /\ log = {}
    /\ attempted = {} /\ exit_status = -1 /\ close_attempts = 0
    /\ fatal_cause = "none"

inputs == <<workflow_file, prompts_file, debug>>
service == <<inflight, abandoned, submitted>>
locals == <<updated_workflow, api_workflow, inj, prompt_id, out, recvs, images, img_idx>>
outcome == <<exit_status, close_attempts, fatal_cause>>

Msg(kind, names_id) == [kind |-> kind, item |-> i, names_id |-> names_id]

\* The locals of one iteration are dead once it ends.
ResetLocals ==
    /\ updated_workflow' = NoGraph /\ api_workflow' = EmptyDict
    /\ inj' = NoInj /\ prompt_id' = 0 /\ recvs' = 0
    /\ images' = <<>> /\ img_idx' = 0

\* lines 401-403: an exception reaches the outer handler
RaiseFatal(cause) ==
    /\ fatal_cause' = cause
    /\ pc' = "fatal"

\* lines 392-397: the item's handler prints prompt_data['id'] and continues;
\* on an item without "id" the print raises KeyError inside the handler,
\* which leaves the loop for the outer handler
ItemHandler ==
    IF prompts_file.prompts[i].hasId
    THEN /\ log' = log \cup {Msg("item_error", TRUE)}
         /\ pc' = "loop"
         /\ UNCHANGED fatal_cause
    ELSE /\ RaiseFatal("item_handler")
         /\ UNCHANGED log

\* lines 385-390: the handler around get_images and the saving loop
GenHandler ==
    /\ log' = log \cup {Msg("gen_error", FALSE)}
    /\ pc' = "loop"

\* line 323
LoadWorkflow ==
    /\ pc = "load_workflow"
    /\ \/ /\ workflow' = workflow_file
          /\ pc' = "load_prompts"
          /\ UNCHANGED fatal_cause
       \/ /\ RaiseFatal("load_workflow")
          /\ UNCHANGED workflow
    /\ UNCHANGED <<inputs, ws, i, locals, service, saved, log, attempted,
                   exit_status, close_attempts>>

\* line 324
LoadPrompts ==
    /\ pc = "load_prompts"
    /\ \/ /\ pc' = "connect"
          /\ UNCHANGED fatal_cause
       \/ RaiseFatal("load_prompts")
    /\ UNCHANGED <<inputs, workflow, ws, i, locals, service, saved, log,
                   attempted, exit_status, close_attempts>>

\* lines 327-332
Connect ==
    /\ pc = "connect"
    /\ \/ /\ ws' = "created"
          /\ RaiseFatal("connect")
       \/ /\ ws' = "open"
          /\ IF prompts_file.hasPrompts
             THEN pc' = "loop" /\ UNCHANGED fatal_cause
             ELSE RaiseFatal("prompts_key")
    /\ UNCHANGED <<inputs, workflow, i, locals, service, saved, log,
                   attempted, exit_status, close_attempts>>

\* line 334: the next item, or line 399 when the list is exhausted
NextItem ==
    /\ pc = "loop"
    /\ IF i < Len(prompts_file.prompts)
       THEN /\ i' = i + 1
            /\ attempted' = attempted \cup {i + 1}
            /\ pc' = "header"
            /\ UNCHANGED exit_status
       ELSE /\ pc' = "finally"
            /\ exit_status' = 0
            /\ UNCHANGED <<i, attempted>>
    /\ out' = NoFrame
    /\ ResetLocals
    /\ UNCHANGED <<inputs, workflow, ws, service, saved, log,
                   close_attempts, fatal_cause>>

\* lines 336-339
Header ==
    /\ pc = "header"
    /\ LET item == prompts_file.prompts[i] IN
       IF item.hasId /\ item.hasPositive /\ (debug => item.hasNegative)
       THEN pc' = "debug_original" /\ UNCHANGED <<log, fatal_cause>>
       ELSE ItemHandler
    /\ UNCHANGED <<inputs, workflow, ws, i, locals, service, saved,
                   attempted, exit_status, close_attempts>>

AfterDebug(stage) ==
    CASE stage = "debug_original" -> "inject"
      [] stage = "debug_updated" -> "convert"
      [] stage = "debug_api" -> "submit"

\* save_debug_workflow, lines 303-316, called at lines 342, 353, 360
SaveDebug ==
    /\ pc \in {"debug_original", "debug_updated", "debug_api"}
    /\ \/ /\ ~debug
          /\ UNCHANGED log
       \/ /\ debug
          /\ UNCHANGED log
       \/ /\ debug
          /\ log' = log \cup {Msg("debug_save_failed", FALSE)}
    /\ pc' = AfterDebug(pc)
    /\ UNCHANGED <<inputs, workflow, ws, i, locals, service, saved,
                   attempted, outcome>>

\* lines 346-350
Inject ==
    /\ pc = "inject"
    /\ LET item == prompts_file.prompts[i]
           r == update_workflow_prompt(workflow, item.positive, item.negative,
                                       IntId(DefaultPositiveNodeId),
                                       IntId(DefaultNegativeNodeId))
       IN IF ~item.hasNegative
          THEN /\ ItemHandler
               /\ UNCHANGED <<workflow, updated_workflow, inj>>
          ELSE /\ workflow' = r.orig
               /\ inj' = [raised |-> r.raised, error |-> r.error,
                          updated_count |-> r.updated_count,
                          warned |-> r.warned]
               /\ IF r.raised
                  THEN ItemHandler /\ UNCHANGED updated_workflow
                  ELSE /\ updated_workflow' = r.copy
                       /\ pc' = "debug_updated"
                       /\ UNCHANGED <<log, fatal_cause>>
    /\ UNCHANGED <<inputs, ws, i, api_workflow, prompt_id, out, recvs, images,
                   img_idx, service, saved, attempted, exit_status,
                   close_attempts>>

\* line 357
Convert ==
    /\ pc = "convert"
    /\ api_workflow' = convert_ui_to_api_format(updated_workflow)
    /\ pc' = "debug_api"
    /\ UNCHANGED <<inputs, workflow, ws, i, updated_workflow, inj, prompt_id,
                   out, recvs, images, img_idx, service, saved, log,
                   attempted, outcome>>

\* line 365 -> line 65, queue_prompt (lines 25-49)
Submit ==
    /\ pc = "submit"
    /\ submitted' = Append(submitted, i)
    /\ \/ \* the request fails or is refused: queue_prompt raises
          /\ GenHandler
          /\ UNCHANGED <<prompt_id, inflight, abandoned>>
       \/ \* accepted, and the response carries the prompt_id
          /\ inflight' = inflight \cup {i}
          /\ prompt_id' = i
          /\ pc' = "wait"
          /\ UNCHANGED <<log, abandoned>>
       \/ \* accepted, but reading or decoding the response raises
          /\ inflight' = inflight \cup {i}
          /\ abandoned' = abandoned \cup {i}
          /\ GenHandler
          /\ UNCHANGED prompt_id
    /\ UNCHANGED <<inputs, workflow, ws, i, updated_workflow, api_workflow,
                   inj, out, recvs, images, img_idx, saved, attempted, outcome>>

TextFrame(type, node, pid) ==
    [kind |-> "text", type |-> type, node |-> node, pid |-> pid]
OtherFrame(kind) == [kind |-> kind, type |-> "", node |-> "", pid |-> 0]

\* The text frames the service may send now: events about the submissions
\* it has accepted and not yet reported complete, and status events.
\* A completion event is (executing, node None, pid).
TextFrames ==
    {TextFrame(t, nd, p) : t \in {"executing", "progress"},
                           nd \in {"None", "3"}, p \in inflight}
        \cup {TextFrame("status", "None", 0)}

\* the frame is the completion event of submission pid, whoever reads it
CompletionOf(f) ==
    f.kind = "text" /\ f.type = "executing" /\ f.node = "None"

\* the test without the comparison of prompt ids
IsCompletion_any_prompt(f, pid) ==
    /\ f.kind = "text"
    /\ f.type = "executing"
    /\ f.node = "None"

\* the test without the check that node is None
IsCompletion_ignores_node(f, pid) ==
    /\ f.kind = "text"
    /\ f.type = "executing"
    /\ f.pid = pid

\* lines 70-75: isinstance(out, str), message['type'] == 'executing',
\* data['node'] is None and data['prompt_id'] == prompt_id
IsCompletion(f, pid) ==
    /\ f.kind = "text"
    /\ f.type = "executing"
    /\ f.node = "None"
    /\ f.pid = pid

\* one pass of the loop of lines 68-77
Recv ==
    /\ pc = "wait"
    /\ \/ \* ws.recv() raises (the connection is closed or fails)
          /\ out' = OtherFrame("raise")
          /\ abandoned' = abandoned \cup {i}
          /\ GenHandler
          /\ UNCHANGED <<recvs, inflight>>
       \/ \* a text frame that json.loads or the key lookups reject
          /\ out' = OtherFrame("malformed")
          /\ abandoned' = abandoned \cup {i}
          /\ GenHandler
          /\ UNCHANGED <<recvs, inflight>>
       \/ \* a binary frame: continue
          /\ recvs < MaxRecv
          /\ out' = OtherFrame("binary")
          /\ recvs' = recvs + 1
          /\ UNCHANGED <<pc, log, inflight, abandoned>>
       \/ \* an event
          \E f \in TextFrames :
             /\ out' = f
             /\ inflight' = IF CompletionOf(f) THEN inflight \ {f.pid}
                            ELSE inflight
             /\ IF IsCompletion(f, prompt_id)
                THEN pc' = "history" /\ UNCHANGED recvs
                ELSE /\ recvs < MaxRecv
                     /\ recvs' = recvs + 1
                     /\ UNCHANGED pc
             /\ UNCHANGED <<log, abandoned>>
    /\ UNCHANGED <<inputs, workflow, ws, i, updated_workflow, api_workflow,
                   inj, prompt_id, images, img_idx, submitted, saved,
                   attempted, outcome>>

\* lines 79-89: the history and every image of it are fetched
History ==
    /\ pc = "history"
    /\ \/ \* get_history raises, or the history lacks the prompt_id
          /\ GenHandler
          /\ UNCHANGED <<images, img_idx>>
       \/ \* a get_image raises
          /\ GenHandler
          /\ UNCHANGED <<images, img_idx>>
       \/ \E imgs \in ImageLists :
             /\ images' = imgs
             /\ img_idx' = 0
             /\ pc' = "save"
             /\ UNCHANGED log
    /\ UNCHANGED <<inputs, workflow, ws, i, updated_workflow, api_workflow,
                   inj, prompt_id, out, recvs, service, saved, attempted,
                   outcome>>

\* lines 369-378: one image of the saving loop
SaveImage ==
    /\ pc = "save"
    /\ img_idx < Len(images)
    /\ \/ \* open and write succeed
          /\ saved' = saved \cup
                {[id |-> prompts_file.prompts[i].id,
                  node |-> images[img_idx + 1].node,
                  j |-> images[img_idx + 1].j]}
          /\ img_idx' = img_idx + 1
          /\ UNCHANGED <<pc, log>>
       \/ \* open or write raises: the exception leaves both loops
          /\ GenHandler
          /\ UNCHANGED <<saved, img_idx>>
    /\ UNCHANGED <<inputs, workflow, ws, i, updated_workflow, api_workflow,
                   inj, prompt_id, out, recvs, images, service, attempted,
                   outcome>>

\* lines 380-383
SaveDone ==
    /\ pc = "save"
    /\ img_idx = Len(images)
    /\ log' = log \cup {IF img_idx = 0 THEN Msg("no_images", FALSE)
                        ELSE Msg("item_done", TRUE)}
    /\ pc' = "loop"
    /\ UNCHANGED <<inputs, workflow, ws, i, locals, service, saved,
                   attempted, outcome>>

\* lines 401-403: print, sys.exit(1)
Fatal ==
    /\ pc = "fatal"
    /\ log' = log \cup {Msg("batch_error", FALSE)}
    /\ exit_status' = 1
    /\ pc' = "finally"
    /\ UNCHANGED <<inputs, workflow, ws, i, locals, service, saved,
                   attempted, close_attempts, fatal_cause>>

\* the finally block without its try/except: a raising close propagates
finally_close_unguarded(status, close_raises) ==
    IF close_raises THEN 1 ELSE status

\* lines 404-408: try: ws.close() except: pass.  The status the run ends
\* with, given the pending one and whether ws.close() raised.
finally_close(status, close_raises) == status

Finally ==
    /\ pc = "finally"
    /\ close_attempts' = close_attempts + 1
    /\ \/ \* ws was never bound: the name lookup raises
          /\ ws = "unbound"
          /\ exit_status' = finally_close(exit_status, TRUE)
          /\ UNCHANGED ws
       \/ \* close() raises
          /\ ws # "unbound"
          /\ exit_status' = finally_close(exit_status, TRUE)
          /\ UNCHANGED ws
       \/ \* close() returns
          /\ ws # "unbound"
          /\ exit_status' = finally_close(exit_status, FALSE)
          /\ ws' = "closed"
    /\ pc' = "done"
    /\ UNCHANGED <<inputs, workflow, i, locals, service, saved, log,
                   attempted, fatal_cause>>

Next ==
    \/ LoadWorkflow \/ LoadPrompts \/ Connect \/ NextItem \/ Header
    \/ SaveDebug \/ Inject \/ Convert \/ Submit \/ Recv \/ History
    \/ SaveImage \/ SaveDone \/ Fatal \/ Finally

Spec == Init /\ [][Next]_vars

(***************************************************************************)
(* Claims about generate_batch (checked under Spec).                       *)
(***************************************************************************)
SetupCauses == {"load_workflow", "load_prompts", "connect", "prompts_key"}

Items == 1..Len(prompts_file.prompts)

ErrorLogged(k) ==
    \E m \in log : m.item = k /\ m.kind \in {"item_error", "gen_error"}

Completed(k) ==
    \E m \in log : m.item = k /\ m.kind \in {"item_done", "no_images"}

\* C1: no exception raised inside an item's processing aborts the batch: in
\* a run whose setup succeeded every item of the list is attempted, and each
\* one either completed or had its failure caught and logged.
C1_FailureIsolation ==
    (pc = "done" /\ fatal_cause \notin SetupCauses) =>
        /\ attempted = Items
        /\ \A k \in Items : Completed(k) \/ ErrorLogged(k)

\* C2: the run exits non-zero if and only if loading the template, loading
\* the prompt list or connecting the session failed; otherwise it exits
\* zero whatever happened to the items.
C2_ExitStatus ==
    pc = "done" => (exit_status = 1 <=> fatal_cause \in SetupCauses)

StrictlyIncreasing(seq) ==
    \A a, b \in 1..Len(seq) : a < b => seq[a] < seq[b]

\* C3 as stated: items are submitted in list order, and while the client
\* waits on a submission no other submission is in flight, in failing runs
\* too.
C3_Original ==
    /\ StrictlyIncreasing(submitted)
    /\ pc = "wait" => inflight \subseteq {i}

\* C3 amended: items are submitted in list order, and a submission in flight
\* is the current item's, on which the client is waiting, unless its item
\* ended in a caught exception after the service had accepted it (such a
\* submission stays in flight while later items are submitted).
C3_SingleInFlight ==
    /\ StrictlyIncreasing(submitted)
    /\ \A k \in inflight \ abandoned : k = i /\ pc = "wait"
    /\ pc = "wait" => i \in inflight

\* C3 witness: the second item is waited on after the first completed
C3_Witness ==
    /\ pc = "wait" /\ i = 2 /\ submitted = <<1, 2>>
    /\ inflight = {2} /\ abandoned = {}

\* C4: every run ends with exactly one attempt to close the session, on
\* every exit path, and the attempt leaves the pending exit status as it was
\* (0 after the loop, 1 after a fatal failure), whether ws was bound or not
\* and whether close() raised or not.
C4_SessionRelease ==
    /\ [](pc = "done" =>
            /\ close_attempts = 1
            /\ exit_status = IF fatal_cause = "none" THEN 0 ELSE 1)
    /\ [][pc = "finally" =>
            /\ pc' = "done"
            /\ close_attempts' = close_attempts + 1
            /\ exit_status' = exit_status]_vars
    /\ [][pc' = "done" => pc \in {"finally", "done"}]_vars

\* C4 witness: a run that failed while loading, so that ws was never bound,
\* has attempted the close and exits 1
C4_Witness ==
    /\ pc = "done" /\ ws = "unbound" /\ close_attempts = 1
    /\ exit_status = 1 /\ fatal_cause = "load_workflow"

\* the frame is the completion event of the current submission
Matches(f, pid) ==
    f.kind = "text" /\ f.type = "executing" /\ f.node = "None" /\ f.pid = pid

\* C5 as stated: the wait ends only by consuming the completion event of the
\* current submission, upon which history retrieval begins; any other frame
\* leaves the run waiting on the same item.
C5_Original ==
    [][pc = "wait" =>
          \/ Matches(out', prompt_id) /\ pc' = "history"
          \/ ~Matches(out', prompt_id) /\ pc' = "wait" /\ i' = i]_vars

\* C5 amended: history retrieval begins only upon the completion event of
\* the current submission; every other frame that is received and decoded
\* (binary, another type, a non-null node, another submission id) is
\* discarded and the wait goes on; the wait also ends, without history
\* retrieval, when ws.recv() raises or a text frame cannot be decoded: the
\* exception is caught and logged and the run advances to the next item.
C5_CompletionMatching ==
    [][pc = "wait" =>
          \/ /\ Matches(out', prompt_id)
             /\ pc' = "history"
          \/ /\ out'.kind \in {"binary", "text"}
             /\ ~Matches(out', prompt_id)
             /\ pc' = "wait" /\ i' = i /\ prompt_id' = prompt_id
          \/ /\ out'.kind \in {"raise", "malformed"}
             /\ pc' = "loop"
             /\ \E m \in log' : m.item = i /\ m.kind = "gen_error"]_vars

\* C5 witness: the wait of the second item ended on its completion event
\* after a frame about the first item's submission had been discarded
C5_Witness ==
    /\ pc = "history" /\ i = 2 /\ recvs > 0 /\ 1 \in abandoned
    /\ Matches(out, prompt_id)

TemplateLoaded == pc # "load_workflow" /\ fatal_cause # "load_workflow"

\* C6: when the loaded template fails validate_workflow the run aborts
\* before any item is processed and exits non-zero.
C6_InvalidTemplateFatal ==
    (TemplateLoaded /\ ~validate_workflow(workflow_file).ok) =>
        /\ attempted = {}
        /\ pc = "done" => exit_status = 1

\* C7: a failed write of one output file does not stop the item: while
\* outputs remain after the image being written, the saving loop goes on to
\* the item's next image; and a failed debug-file write does not stop the
\* item either.
C7_PersistenceIsolation ==
    [][/\ (pc = "save" /\ img_idx + 1 < Len(images)) =>
             (pc' = "save" /\ img_idx' = img_idx + 1)
       /\ pc \in {"debug_original", "debug_updated", "debug_api"} =>
             pc' = AfterDebug(pc)]_vars

(***************************************************************************)
(* Claims about the graph functions (checked under SpecFn).                *)
(***************************************************************************)
\* update_workflow_prompt returned normally for the current item
Injected == pc \in {"fn_convert", "fn_next"} /\ ~inj.raised

\* convert_ui_to_api_format has produced api_workflow from updated_workflow
Converted == pc = "fn_next" /\ ~inj.raised

TargetIds == {IntId(DefaultPositiveNodeId), IntId(DefaultNegativeNodeId)}

\* h is g with, at most, the first widget value of text-encoding nodes whose
\* id is a target id replaced by one of the two texts
SameButTargetText(g, h, texts) ==
    /\ h.isDict = g.isDict /\ h.hasNodes = g.hasNodes
    /\ h.nodesIsList = g.nodesIsList
    /\ h.links = g.links
    /\ Len(h.nodes) = Len(g.nodes)
    /\ \A n \in 1..Len(g.nodes) :
          \/ h.nodes[n] = g.nodes[n]
          \/ /\ g.nodes[n].type = "CLIPTextEncode"
             /\ g.nodes[n].id \in TargetIds
             /\ Len(g.nodes[n].widgets) > 0
             /\ Len(h.nodes[n].widgets) = Len(g.nodes[n].widgets)
             /\ h.nodes[n].widgets[1] \in texts
             /\ h.nodes[n] =
                  [g.nodes[n] EXCEPT !.widgets[1] = h.nodes[n].widgets[1]]

\* C8: update_workflow_prompt leaves the graph it is given unchanged, so the
\* template equals the loaded graph after any number of items, and the graph
\* it returns has the same nodes in the same order and the same links,
\* differing at most in the first widget value of text-encoding nodes whose
\* id is the positive or the negative id, which holds a text of the current
\* item.
C8_InjectionChangesTextOnly ==
    /\ workflow = workflow_file
    /\ Injected =>
          SameButTargetText(workflow_file, updated_workflow,
                            {prompts_file.prompts[i].positive,
                             prompts_file.prompts[i].negative})

\* C8 witness: the second item's injection replaced both texts
C8_Witness ==
    /\ Injected /\ i = 2 /\ inj.updated_count = 2
    /\ updated_workflow # workflow_file

NamesTextNode(g, id) ==
    \E n \in 1..Len(g.nodes) :
        g.nodes[n].hasId /\ g.nodes[n].id = id /\ IsTextNode(g.nodes[n])

NamesNoNode(g, id) ==
    \A n \in 1..Len(g.nodes) : ~(g.nodes[n].hasId /\ g.nodes[n].id = id)

\* exactly one target id names a text-encoding node, the other names no node
OneTargetMissing(g) ==
    \E a \in TargetIds : \E b \in TargetIds \ {a} :
        NamesTextNode(g, a) /\ NamesNoNode(g, b)

\* C9: on a valid graph in which exactly one configured id names a
\* text-encoding node and the other names no node, update_workflow_prompt
\* updates the node that exists, warns about the missing target, raises
\* nothing and returns a valid graph; when neither id names a text node it
\* returns the unmodified copy with a warning and no error.
C9_MissingTargetWarns ==
    (pc \in {"fn_convert", "fn_next"} /\ validate_workflow(workflow_file).ok) =>
        /\ ~inj.raised
        /\ validate_workflow(updated_workflow).ok
        /\ OneTargetMissing(workflow_file) =>
              inj.updated_count >= 1 /\ inj.warned
        /\ (\A id \in TargetIds : ~NamesTextNode(workflow_file, id)) =>
              updated_workflow = workflow_file /\ inj.warned

Refs(api) ==
    {api[k].inputs[nm] : <<k, nm>> \in
        {<<k2, nm2>> \in UNION {{k3} \X DOMAIN api[k3].inputs : k3 \in DOMAIN api} :
            api[k2].inputs[nm2].ref}}

\* one entry per node, keyed by str(id), and every reference names a key
ReferenceIntegrity(g, api) ==
    /\ Cardinality(DOMAIN api) = Len(g.nodes)
    /\ \A n \in 1..Len(g.nodes) :
          /\ str(g.nodes[n].id) \in DOMAIN api
          /\ api[str(g.nodes[n].id)].class_type = g.nodes[n].type
    /\ \A r \in Refs(api) : r.node \in DOMAIN api

\* C10 as stated: for every link-form graph that passes validate_workflow,
\* the execution form has exactly one entry per node, keyed by the string
\* form of the id, and every reference pair names a key of the same graph.
C10_Original ==
    Converted => ReferenceIntegrity(updated_workflow, api_workflow)

UniqueIdStrings(g) ==
    \A m, n \in 1..Len(g.nodes) :
        m # n => str(g.nodes[m].id) # str(g.nodes[n].id)

LinkSourcesExist(g) ==
    \A l \in 1..Len(g.links) :
        g.links[l].len >= MinLinkLen =>
            \E n \in 1..Len(g.nodes) :
                str(g.nodes[n].id) = str(g.links[l].source_node)

\* C10 amended: the same, for the valid graphs whose node ids have pairwise
\* distinct string forms and whose links (of six elements or more) all have
\* a source node that is a node of the graph.
C10_ReferenceIntegrity ==
    (Converted /\ UniqueIdStrings(updated_workflow)
               /\ LinkSourcesExist(updated_workflow)) =>
        ReferenceIntegrity(updated_workflow, api_workflow)

\* C10 witness: a converted graph of the amended claim with a resolved link
C10_Witness ==
    /\ Converted /\ UniqueIdStrings(updated_workflow)
    /\ LinkSourcesExist(updated_workflow)
    /\ Len(updated_workflow.nodes) = 2
    /\ Refs(api_workflow) # {}

====
